---- MODULE Spec2Model ----
(***************************************************************************)
(* A model of the planning-portal scraper: func (main.rs) invokes process  *)
(* (web_scraper.rs), which walks the paginated weekly list twice           *)
(* (extract_links, "DC_Validated" then "DC_Decided") and reconciles every  *)
(* case link against the MongoDB collection (mongo.rs), uploading the      *)
(* qualifying documents to S3 (s3upload.rs).                               *)
(*                                                                         *)
(* The walker is modelled request by request.  The body of each for-loop   *)
(* iteration of process is one action: the program is single threaded, so  *)
(* nothing interleaves with it; the calls it makes on the portal, the      *)
(* store and the bucket are recorded, in order, in ops.                    *)
(***************************************************************************)
EXTENDS Integers, Sequences, FiniteSets, TLC

\* ---------------------------------------------------------------- bounds
\* Invocations of the handler per behaviour.
MaxRuns == 2
\* Operations (requests, lookups, uploads, writes) that fail per behaviour.
MaxFaults == 1
\* Page fetches of one walk (caps the walker's while loop on a cyclic portal).
MaxFetch == 4
\* Rows of the documents table of one documents page.
MaxRows == 3

\* ------------------------------------------------------------- constants
COUNTY == "Leeds"
ACTOR == "6539157ef8be4d62ea02ed6b"
DocTypes == {"decision_notice", "application_form"}
Options == <<"DC_Validated", "DC_Decided">>

\* The case links of the portal, and the reference id the portal shows for each
\* (span.caseNumber of the documents page).  EmptyRef is the empty string that
\* get_document stores when the print preview has no "Reference" row.
Links == {1, 2}
EmptyRef == 0
CaseNumber(l) == l

\* The explored page contents of a print preview (summary, further
\* information and agent tables) : the portal may change them between runs.
Epochs == {0, 1}

VARIABLES
    portal,      \* the portal's pages: listing layout, documents and preview pages
    epoch,       \* the version of the print-preview contents now served
    store,       \* the MongoDB collection: a sequence of documents, in natural order
    s3,          \* number of objects put in the bucket
    run,         \* invocations of func started so far (also the clock)
    faults,      \* operations that failed so far
    pc,          \* where process is
    pass,        \* the dateType option of the walk / for-loop in progress
    links,       \* extract_links: the links collected so far
    next_page,   \* extract_links: the "a.next" link of the last page, 0 when absent
    fetched,     \* extract_links: the result pages fetched by this walk, in order
    todo,        \* process: the links the for loop has still to visit
    ops,         \* the calls made for the case link processed last, in order
    result,      \* what process returned to func: "Ok", "Err", or "panic"
    csrf,        \* extract_links: the _csrf value read from the last form page
    token,       \* extract_links: the struts TOKEN value read from it, if any
    http,        \* the requests of the walk in progress and what each was answered
    exit,        \* what the last invocation of func ended in
    page,        \* extract_docs: the rows of the documents page it was given
    parsed,      \* extract_docs: whether it has returned
    kept,        \* extract_docs: the (classification, URL) pairs before collect
    found        \* extract_docs: the HashMap it returned

vars == <<portal, epoch, store, s3, run, faults, pc, pass, links, next_page,
          fetched, todo, ops, result, csrf, token, http, exit,
          page, parsed, kept, found>>

\* ------------------------------------------------------------ the portal
\* A listing is a sequence of result pages; page i holds case links and the
\* index of the page its "a.next" element points to (0: no such element).
Page(ls, nx) == [links |-> ls, next |-> nx]

\* Two results pages, one case link on each.
Chain == <<Page(<<1>>, 2), Page(<<2>>, 0)>>

Layouts ==
    { <<Page(<<1, 2>>, nx)>> : nx \in {0, 1} }
    \cup { <<Page(<<1>>, 2), Page(<<2>>, nx)>> : nx \in {0, 1, 2} }
    \cup { <<Page(<<1>>, 2), Page(<<1>>, 0)>> }

\* The portals explored.  On the two-page chain every case has any set of
\* classified document links when the print preview shows the reference id
\* of the case in its summary table, and both cases have the same set when
\* the print preview has no "Reference" row; on the other layouts every case
\* has both documents.  legacy tells whether the portal's forms carry the
\* input org.apache.struts.taglib.html.TOKEN.
Portals ==
    [ pages : {Chain},
      docs : [Links -> SUBSET DocTypes],
      preview_reference : {[l \in Links |-> CaseNumber(l)]},
      legacy : {TRUE} ]
    \cup
    [ pages : {Chain},
      docs : { [l \in Links |-> d] : d \in SUBSET DocTypes },
      preview_reference : {[l \in Links |-> EmptyRef]},
      legacy : {TRUE} ]
    \cup
    [ pages : Layouts,
      docs : {[l \in Links |-> DocTypes]},
      preview_reference : {[l \in Links |-> CaseNumber(l)]},
      legacy : BOOLEAN ]

\* The token values of a page: NoToken stands for an input that is not there
\* (None), NoTokens for a page or a request without either input.
NoToken == 0
Tokens(c, t) == [csrf |-> c, token |-> t]
NoTokens == Tokens(NoToken, NoToken)

\* The portal reissues its tokens with every form page: the n-th page served
\* in a walk carries values no page before it carried.
Issue(n) == Tokens(n, IF portal.legacy THEN n ELSE NoToken)

\* One request of the walker: the endpoint, the token inputs of the form sent
\* with it, and the token inputs of the page that answered ("none": no answer).
Exchange(request, form, response) ==
    [request |-> request, form |-> form, response |-> response]

\* ------------------------------------------------------------- mongo.rs
\* find_one: the index of the first document the filter matches, 0 for None.
FirstIndex(matching) ==
    IF matching = {} THEN 0
    ELSE CHOOSE i \in matching : \A j \in matching : i <= j

\* check_reference: filter {council, summary.reference}.
check_reference(reference, council, collection) ==
    FirstIndex({ i \in 1..Len(collection) :
                   /\ collection[i].council = council
                   /\ collection[i].summary.reference = reference })

\* check_decision_exisits: the same filter, and documents $elemMatch
\* {doc_type: "decision_notice"}.
check_decision_exisits(reference, council, collection) ==
    FirstIndex({ i \in 1..Len(collection) :
                   /\ collection[i].council = council
                   /\ collection[i].summary.reference = reference
                   /\ \E k \in 1..Len(collection[i].documents) :
                        collection[i].documents[k].doc_type = "decision_notice" })

\* An update that stamps the creation fields as well, in place of the "$set"
\* of the six fields of data.
update_restamped(reference_id, council, data, collection) ==
    LET i == check_reference(reference_id, council, collection) IN
    IF i = 0 THEN collection
    ELSE [collection EXCEPT ![i] =
            [@ EXCEPT !.summary = data.summary,
                      !.further_information = data.further_information,
                      !.documents = data.documents,
                      !.agent_details = data.agent_details,
                      !.created_at = data.updated_at,
                      !.updated_at = data.updated_at,
                      !.updated_by = data.updated_by]]

\* update_one(filter, {"$set": data}): the first document matching
\* {council, summary.reference} gets the fields of data; a zero match count
\* changes nothing ("Document not found").
update_one(reference_id, council, data, collection) ==
    LET i == check_reference(reference_id, council, collection) IN
    IF i = 0 THEN collection
    ELSE [collection EXCEPT ![i] =
            [@ EXCEPT !.summary = data.summary,
                      !.further_information = data.further_information,
                      !.documents = data.documents,
                      !.agent_details = data.agent_details,
                      !.updated_at = data.updated_at,
                      !.updated_by = data.updated_by]]

\* A write that is acknowledged and stores nothing, in place of the insert.
insert_none(data, collection) == collection

\* insert_one(data).
insert_one(data, collection) == Append(collection, data)

\* send_data: update_one when update is true, insert_one otherwise; res is
\* how the driver call ended ("err": the call failed and wrote nothing).
send_data(reference_id, council, data, collection, update, res) ==
    IF res = "err" THEN collection
    ELSE IF update THEN update_one(reference_id, council, data, collection)
    ELSE insert_one(data, collection)

\* ---------------------------------------------------------- s3upload.rs
\* upload_file: the descriptor of the uploaded object; key stands for the
\* random 16 character object key.
upload_file(file_type, key) ==
    [type |-> "pdf", name |-> key, doc_type |-> file_type]

\* ------------------------------------------------------- web_scraper.rs
\* A URL of a case: the case link and the value of its last parameter
\* ("=summary" in the links of the result pages).  replace is str::replace
\* on such a URL: the value is substituted where it occurs.
replace(url, from, to) == IF url[2] = from THEN <<url[1], to>> ELSE url

\* get_document: the record built from the print preview of a case link.
\* The reference is the "Reference" row of the preview's summary table (the
\* empty string when there is none), the dates are the time of the call.
\* url is the argument process passes (lines 474 and 583, 600): the case link
\* as listed; the three URLs of the record are made from url, not from
\* print_preview_url.
get_document(link, now) ==
    LET url == <<link, "=summary">>
        print_preview_url == replace(url, "=summary", "=printPreview")
    IN
    [council |-> COUNTY,
     link |-> replace(url, "=printPreview", "=summary"),
     summary |-> [reference |-> portal.preview_reference[link], data |-> epoch],
     further_information |-> epoch,
     created_at |-> now,
     created_by |-> ACTOR,
     updated_at |-> now,
     updated_by |-> ACTOR,
     details_url |-> replace(url, "=printPreview", "=details"),
     documents_url |-> replace(url, "=printPreview", "=documents"),
     documents |-> <<>>,
     agent_details |-> epoch]

\* extract_docs: the reference id of the documents page and the
\* classifications that retained a link.
extract_docs(link) ==
    [reference_id |-> CaseNumber(link), docs |-> portal.docs[link]]

\* A check for an empty map, in place of the check for the key.
no_documents(docs) == docs = {}

\* process, line 468: !docs.contains_key("application_form").
no_application_form(docs) == "application_form" \notin docs

\* An array that holds the new file alone, in place of the push.
pushed_alone(doc, file) == <<file>>

\* process, lines 506, 572 and 620: doc.push(bson::Bson::Document(file)).
pushed(doc, file) == Append(doc, file)

\* A "$set" document that takes the documents of the record just extracted,
\* in place of the array the new file was pushed on.
update_set_fresh(new_document, doc, now) ==
    [summary |-> new_document.summary,
     further_information |-> new_document.further_information,
     documents |-> new_document.documents,
     agent_details |-> new_document.agent_details,
     updated_at |-> now,
     updated_by |-> ACTOR]

\* process, lines 584-593: the "$set" document of the decided pass.
update_set(new_document, doc, now) ==
    [summary |-> new_document.summary,
     further_information |-> new_document.further_information,
     documents |-> doc,
     agent_details |-> new_document.agent_details,
     updated_at |-> now,
     updated_by |-> ACTOR]

\* Token values that stay what they were, in place of the ones read again.
retained(previous, response) == previous

\* extract_links, lines 107-119: token and csrf are read again from the page
\* that answered the search form; they shadow the listing page's.
reissued(previous, response) == response

\* The new links put in front, in place of the extension at the end.
extend_front(list, new_links) == new_links \o list

\* extract_links, line 172: links.extend(new_links).
extend(list, new_links) == list \o new_links

\* The links taken from the last to the first, in place of the Vec's order.
RECURSIVE into_iter_rev(_)
into_iter_rev(list) ==
    IF list = <<>> THEN <<>>
    ELSE Append(into_iter_rev(Tail(list)), Head(list))

\* process, lines 457 and 538: "for link in validated_links" takes the links
\* in the order of the Vec.
into_iter(list) == list

\* One call on a collaborator, as ops records it.
Call(op, arg, res) == [op |-> op, arg |-> arg, res |-> res]

\* What one iteration of a for loop of process leaves behind: the
\* collection, the bucket's object count, the calls made, and how the
\* iteration ended ("next": the loop goes on; "err": process returned the
\* error; "panic": the thread panicked).
Frame(collection, objects, calls, flow) ==
    [store |-> collection, s3 |-> objects, ops |-> calls, flow |-> flow]

\* How the calls of one iteration can end.
OkErr == {"ok", "err"}
Outcomes ==
    [extract_docs : {"ok", "err", "noref"},
     check_decision_exisits : OkErr,
     check_reference : OkErr,
     get_document : OkErr,
     upload_file : [DocTypes -> OkErr],
     send_data : OkErr]

\* The calls of o that do not end well.
Errors(o) ==
    (IF o.extract_docs = "ok" THEN 0 ELSE 1)
    + (IF o.check_decision_exisits = "ok" THEN 0 ELSE 1)
    + (IF o.check_reference = "ok" THEN 0 ELSE 1)
    + (IF o.get_document = "ok" THEN 0 ELSE 1)
    + Cardinality({ t \in DocTypes : o.upload_file[t] # "ok" })
    + (IF o.send_data = "ok" THEN 0 ELSE 1)

\* The orders in which a HashMap with these keys may be iterated.
Orders(keys) ==
    { q \in UNION { [1..n -> keys] : n \in {Cardinality(keys)} } :
        \A i, j \in DOMAIN q : i # j => q[i] # q[j] }

\* An Err arm that is never taken, in place of the match on the result.
is_err_never(res) == FALSE

\* process, lines 475-482 and 485-499: match .. { Ok(x) => x, Err(e) => {
\* println!(..); pb.inc(1); continue; } } of the validated pass.
is_err(res) == res = "err"

\* process, lines 457-523: the body of "for link in validated_links" for one
\* link, given how each call ends (o), the collection and the object count.
validated_case(link, o, collection, objects, now) ==
    LET ex == Call("extract_docs", "", o.extract_docs) IN
    IF o.extract_docs = "err" THEN
        \* Err(e) => "Failed to extract docs for link"
        Frame(collection, objects, <<ex>>, "next")
    ELSE IF o.extract_docs = "noref" THEN
        \* .expect("No reference id found")
        Frame(collection, objects, <<ex>>, "panic")
    ELSE
    LET reference_id == extract_docs(link).reference_id
        docs == extract_docs(link).docs
        cr == Call("check_reference", "", o.check_reference)
    IN
    IF o.check_reference = "ok"
        /\ check_reference(reference_id, COUNTY, collection) # 0 THEN
        \* if let Ok(Some(_)) : "Skipping reference as already present"
        Frame(collection, objects, <<ex, cr>>, "next")
    ELSE IF no_application_form(docs) THEN
        \* "No application form found for reference id"
        Frame(collection, objects, <<ex, cr>>, "next")
    ELSE
    LET gd == Call("get_document", "", o.get_document) IN
    IF is_err(o.get_document) THEN
        \* "Error in getting document" ; continue
        Frame(collection, objects, <<ex, cr, gd>>, "next")
    ELSE
    LET document == get_document(link, now)
        up == Call("upload_file", "application_form", o.upload_file["application_form"])
    IN
    IF is_err(up.res) THEN
        \* "Error in uploading file" ; continue
        Frame(collection, objects, <<ex, cr, gd, up>>, "next")
    ELSE
    LET file == upload_file("application_form", objects + 1)
        doc == pushed(document.documents, file)
        data == [document EXCEPT !.documents = doc]
        sd == Call("send_data", "insert", o.send_data)
    IN
    Frame(send_data(reference_id, COUNTY, data, collection, FALSE, o.send_data),
          objects + 1, <<ex, cr, gd, up, sd>>, "next")

\* A loop that ends after the first key, in place of the loop over all keys.
upload_first(order, o, acc) ==
    IF order = <<>> THEN acc
    ELSE [doc |-> <<upload_file(Head(order), acc.s3 + 1)>>,
          s3 |-> acc.s3 + 1,
          ops |-> Append(acc.ops, [op |-> "upload_file", arg |-> Head(order),
                                   res |-> o.upload_file[Head(order)]])]

\* process, lines 609-621: "for (k, v) in docs" of the insert branch of the
\* decided pass, the keys taken in the given order.  acc holds the doc array,
\* the object count and the calls so far.  A failed upload ends in
\* "continue", which goes on with the next key of this loop.
RECURSIVE upload_each(_, _, _)
upload_each(order, o, acc) ==
    IF order = <<>> THEN acc
    ELSE
    LET k == Head(order)
        up == Call("upload_file", k, o.upload_file[k])
    IN
    IF up.res = "err" THEN
        upload_each(Tail(order), o, [acc EXCEPT !.ops = Append(@, up)])
    ELSE
        upload_each(Tail(order), o,
            [doc |-> pushed(acc.doc, upload_file(k, acc.s3 + 1)),
             s3 |-> acc.s3 + 1,
             ops |-> Append(acc.ops, up)])

\* process, lines 548-598: the branch of the decided pass for a reference
\* check_reference found (at index i of the collection).
decided_update(link, o, collection, objects, now, i, reference_id, docs, calls) ==
    LET document == collection[i]
        prior == document.documents
    IN
    IF "decision_notice" \notin docs THEN
        \* "No Decision Notice found for reference id" ; continue
        Frame(collection, objects, calls, "next")
    ELSE
    LET up == Call("upload_file", "decision_notice", o.upload_file["decision_notice"]) IN
    IF up.res = "err" THEN
        \* "Error in uploading file" ; continue
        Frame(collection, objects, Append(calls, up), "next")
    ELSE
    LET doc == pushed(prior, upload_file("decision_notice", objects + 1))
        gd == Call("get_document", "", o.get_document)
    IN
    IF o.get_document = "err" THEN
        \* get_document(...).await? : process returns the error
        Frame(collection, objects + 1, calls \o <<up, gd>>, "err")
    ELSE
    LET new_document == get_document(link, now)
        update == update_set(new_document, doc, now)
        sd == Call("send_data", "update", o.send_data)
    IN
    Frame(send_data(reference_id, COUNTY, update, collection, TRUE, o.send_data),
          objects + 1, calls \o <<up, gd, sd>>, "next")

\* process, lines 599-629: the branch of the decided pass for a reference
\* neither lookup found.
decided_insert(link, o, order, collection, objects, now, reference_id, calls) ==
    LET gd == Call("get_document", "", o.get_document) IN
    IF o.get_document = "err" THEN
        \* "Error in getting document" ; continue
        Frame(collection, objects, Append(calls, gd), "next")
    ELSE
    LET document == get_document(link, now)
        done == upload_each(order, o,
                    [doc |-> <<>>, s3 |-> objects, ops |-> Append(calls, gd)])
        data == [document EXCEPT !.documents = done.doc]
        sd == Call("send_data", "insert", o.send_data)
    IN
    Frame(send_data(reference_id, COUNTY, data, collection, FALSE, o.send_data),
          done.s3, Append(done.ops, sd), "next")

\* process, lines 538-636: the body of "for link in decided_links" for one
\* link; order is the iteration order of the docs HashMap.
decided_case(link, o, order, collection, objects, now) ==
    LET ex == Call("extract_docs", "", o.extract_docs) IN
    IF o.extract_docs = "err" THEN
        Frame(collection, objects, <<ex>>, "next")
    ELSE IF o.extract_docs = "noref" THEN
        Frame(collection, objects, <<ex>>, "panic")
    ELSE
    LET reference_id == extract_docs(link).reference_id
        docs == extract_docs(link).docs
        cd == Call("check_decision_exisits", "", o.check_decision_exisits)
    IN
    IF o.check_decision_exisits = "ok"
        /\ check_decision_exisits(reference_id, COUNTY, collection) # 0 THEN
        \* if let Ok(Some(_)) : "Skipping as data already present"
        Frame(collection, objects, <<ex, cd>>, "next")
    ELSE
    LET cr == Call("check_reference", "", o.check_reference)
        i == check_reference(reference_id, COUNTY, collection)
    IN
    IF o.check_reference = "ok" /\ i # 0 THEN
        \* else if let Ok(Some(document))
        decided_update(link, o, collection, objects, now, i, reference_id, docs,
                       <<ex, cd, cr>>)
    ELSE
        decided_insert(link, o, order, collection, objects, now, reference_id,
                       <<ex, cd, cr>>)

\* The calls of an iteration that failed.
Failed(calls) == { n \in 1..Len(calls) : calls[n].res # "ok" }

\* ----------------------------------------------------------------- state
Init ==
    /\ portal \in Portals
    /\ epoch = 0
    /\ store = <<>>
    /\ s3 = 0
    /\ run = 0
    /\ faults = 0
    /\ pc = "idle"
    /\ pass = Options[1]
    /\ links = <<>>
    /\ next_page = 0
    /\ fetched = <<>>
    /\ todo = <<>>
    /\ ops = <<>>
    /\ result = "none"
    /\ csrf = NoToken
    /\ token = NoToken
    /\ http = <<>>
    /\ exit = "none"
    /\ page = <<>>
    /\ parsed = FALSE
    /\ kept = <<>>
    /\ found = <<>>

\* An error that is dropped, the for loop starting on what there is, in
\* place of the return.
Resume(how) ==
    /\ pc' = "cases"
    /\ result' = result

\* process returns (Ok, an error through "?") or its thread panics.
Return(how) ==
    /\ pc' = "returned"
    /\ result' = how

\* A request or call ends in res: anything but "ok" uses up one fault.
Ends(res) ==
    IF res = "ok" THEN faults' = faults
    ELSE faults < MaxFaults /\ faults' = faults + 1

\* main.rs, func: one invocation of the handler starts process.
StartRun ==
    /\ pc = "idle"
    /\ run < MaxRuns
    /\ run' = run + 1
    /\ pc' = "connect"
    /\ result' = "running"
    /\ pass' = Options[1]
    /\ links' = <<>>
    /\ next_page' = 0
    /\ fetched' = <<>>
    /\ todo' = <<>>
    /\ ops' = <<>>
    /\ csrf' = NoToken
    /\ token' = NoToken
    /\ http' = <<>>
    /\ exit' = "none"
    /\ UNCHANGED <<portal, epoch, store, s3, faults>>
    /\ UNCHANGED <<page, parsed, kept, found>>

\* process, lines 441-442: client.get(BASE_URL).send().await?
Connect ==
    /\ pc = "connect"
    /\ \E res \in OkErr :
        /\ Ends(res)
        /\ IF res = "ok" THEN pc' = "listing" /\ result' = result
           ELSE Return("Err")
    /\ UNCHANGED <<portal, epoch, store, s3, run, pass, links, next_page,
                   fetched, todo, ops, csrf, token, http, exit>>
    /\ UNCHANGED <<page, parsed, kept, found>>

\* extract_links, lines 57-81: GET the weekly list and read week, token and
\* csrf from it; the week option and the csrf input are required ("shape":
\* one is missing and expect panics).
Listing ==
    /\ pc = "listing"
    /\ \E res \in {"ok", "err", "shape"} :
        /\ Ends(res)
        /\ CASE res = "ok" ->
                    /\ pc' = "submit"
                    /\ result' = result
                    /\ csrf' = Issue(1).csrf
                    /\ token' = Issue(1).token
                    /\ http' = <<Exchange("weeklyList", NoTokens, Issue(1))>>
             [] res = "err" ->
                    /\ Return("Err")
                    /\ csrf' = NoToken
                    /\ token' = NoToken
                    /\ http' = <<Exchange("weeklyList", NoTokens, NoTokens)>>
             [] OTHER ->
                    /\ Return("panic")
                    /\ csrf' = NoToken
                    /\ token' = NoToken
                    /\ http' = <<Exchange("weeklyList", NoTokens, NoTokens)>>
    /\ links' = <<>>
    /\ next_page' = 0
    /\ fetched' = <<>>
    /\ UNCHANGED <<portal, epoch, store, s3, run, pass, todo, ops, exit>>
    /\ UNCHANGED <<page, parsed, kept, found>>

\* extract_links, lines 83-119: the search form, with the csrf and token of
\* the listing page, sent to weeklyListResults.do?action=firstPage; token and
\* csrf are read again from the answer, whose csrf input is required.
Submit ==
    /\ pc = "submit"
    /\ LET form == Tokens(csrf, token)
           response == Issue(Len(http) + 1)
       IN \E res \in {"ok", "err", "shape"} :
        /\ Ends(res)
        /\ CASE res = "ok" ->
                    /\ pc' = "paged"
                    /\ result' = result
                    /\ csrf' = reissued(form, response).csrf
                    /\ token' = reissued(form, response).token
                    /\ http' = Append(http, Exchange("firstPage", form, response))
             [] res = "err" ->
                    /\ Return("Err")
                    /\ http' = Append(http, Exchange("firstPage", form, NoTokens))
                    /\ UNCHANGED <<csrf, token>>
             [] OTHER ->
                    /\ Return("panic")
                    /\ http' = Append(http, Exchange("firstPage", form, NoTokens))
                    /\ UNCHANGED <<csrf, token>>
    /\ UNCHANGED <<portal, epoch, store, s3, run, pass, links, next_page,
                   fetched, todo, ops, exit>>
    /\ UNCHANGED <<page, parsed, kept, found>>

\* extract_links, lines 121-154: the paging form, with the csrf and token
\* read last, sent to pagedSearchResults.do; the links and the "a.next" link
\* of the first page.
Paged ==
    /\ pc = "paged"
    /\ LET form == Tokens(csrf, token)
           response == Issue(Len(http) + 1)
       IN \E res \in OkErr :
        /\ Ends(res)
        /\ IF res = "ok" THEN
              /\ links' = portal.pages[1].links
              /\ next_page' = portal.pages[1].next
              /\ fetched' = <<1>>
              /\ pc' = "next"
              /\ result' = result
              /\ http' = Append(http, Exchange("pagedSearchResults", form, response))
           ELSE
              /\ Return("Err")
              /\ http' = Append(http, Exchange("pagedSearchResults", form, NoTokens))
              /\ UNCHANGED <<links, next_page, fetched>>
    /\ UNCHANGED <<portal, epoch, store, s3, run, pass, todo, ops, csrf, token,
                   exit>>
    /\ UNCHANGED <<page, parsed, kept, found>>

\* extract_links, lines 156-177: one turn of "while let Some(page) =
\* next_page".
NextPage ==
    /\ pc = "next"
    /\ next_page # 0
    /\ Len(fetched) < MaxFetch
    /\ \E res \in OkErr :
        /\ Ends(res)
        /\ IF res = "ok" THEN
              /\ links' = extend(links, portal.pages[next_page].links)
              /\ next_page' = portal.pages[next_page].next
              /\ fetched' = Append(fetched, next_page)
              /\ pc' = pc
              /\ result' = result
              /\ http' = Append(http, Exchange("page", NoTokens,
                                               Issue(Len(http) + 1)))
           ELSE
              /\ Return("Err")
              /\ http' = Append(http, Exchange("page", NoTokens, NoTokens))
              /\ UNCHANGED <<links, next_page, fetched>>
    /\ UNCHANGED <<portal, epoch, store, s3, run, pass, todo, ops, csrf, token,
                   exit>>
    /\ UNCHANGED <<page, parsed, kept, found>>

\* extract_links, line 178, and process, lines 446 and 528: Ok(links) becomes
\* the list the for loop visits.
WalkDone ==
    /\ pc = "next"
    /\ next_page = 0
    /\ todo' = into_iter(links)
    /\ pc' = "cases"
    /\ UNCHANGED <<portal, epoch, store, s3, run, faults, pass, links,
                   next_page, fetched, ops, result, csrf, token, http, exit>>
    /\ UNCHANGED <<page, parsed, kept, found>>

\* The effect of one for-loop iteration that left frame f behind.
Iterated(f) ==
    /\ faults + Cardinality(Failed(f.ops)) <= MaxFaults
    /\ faults' = faults + Cardinality(Failed(f.ops))
    /\ store' = f.store
    /\ s3' = f.s3
    /\ ops' = f.ops
    /\ todo' = Tail(todo)
    /\ CASE f.flow = "next" -> pc' = pc /\ result' = result
         [] f.flow = "err" -> Return("Err")
         [] OTHER -> Return("panic")

\* process, lines 457-523: one iteration of the validated for loop.
ValidatedCase ==
    /\ pc = "cases"
    /\ pass = "DC_Validated"
    /\ todo # <<>>
    /\ \E o \in { x \in Outcomes : faults + Errors(x) <= MaxFaults } :
        Iterated(validated_case(Head(todo), o, store, s3, run))
    /\ UNCHANGED <<portal, epoch, run, pass, links, next_page, fetched,
                   csrf, token, http, exit>>
    /\ UNCHANGED <<page, parsed, kept, found>>

\* process, lines 538-636: one iteration of the decided for loop.
DecidedCase ==
    /\ pc = "cases"
    /\ pass = "DC_Decided"
    /\ todo # <<>>
    /\ \E o \in { x \in Outcomes : faults + Errors(x) <= MaxFaults },
          order \in Orders(portal.docs[Head(todo)]) :
        Iterated(decided_case(Head(todo), o, order, store, s3, run))
    /\ UNCHANGED <<portal, epoch, run, pass, links, next_page, fetched,
                   csrf, token, http, exit>>
    /\ UNCHANGED <<page, parsed, kept, found>>

\* process, lines 525-528: the validated loop is over, the decided walk starts.
ValidatedDone ==
    /\ pc = "cases"
    /\ pass = "DC_Validated"
    /\ todo = <<>>
    /\ pass' = "DC_Decided"
    /\ pc' = "listing"
    /\ UNCHANGED <<portal, epoch, store, s3, run, faults, links, next_page,
                   fetched, todo, ops, result, csrf, token, http, exit>>
    /\ UNCHANGED <<page, parsed, kept, found>>

\* process, lines 638-644: the decided loop is over, process returns Ok(()).
DecidedDone ==
    /\ pc = "cases"
    /\ pass = "DC_Decided"
    /\ todo = <<>>
    /\ Return("Ok")
    /\ UNCHANGED <<portal, epoch, store, s3, run, faults, pass, links,
                   next_page, fetched, todo, ops, csrf, token, http, exit>>
    /\ UNCHANGED <<page, parsed, kept, found>>

\* main.rs, func, lines 39-42: what func returns, given how process ended.
\* An Err is printed ("Error in process") and func returns Ok(()); a panic
\* of process unwinds through func.
func(ended) == IF ended = "panic" THEN "panic" ELSE "Ok"

\* main.rs, func, lines 39-43: the invocation ends.
FuncReturn ==
    /\ pc = "returned"
    /\ pc' = "idle"
    /\ exit' = func(result)
    /\ UNCHANGED <<portal, epoch, store, s3, run, faults, pass, links,
                   next_page, fetched, todo, ops, result, csrf, token, http>>
    /\ UNCHANGED <<page, parsed, kept, found>>

\* Between two invocations the portal decides the cases: every documents
\* page gets a decision notice and the print previews get new contents.
PortalChange ==
    /\ pc = "idle"
    /\ run >= 1
    /\ epoch = 0
    /\ epoch' = 1
    /\ portal' = [portal EXCEPT
                    !.docs = [l \in Links |-> @[l] \cup {"decision_notice"}]]
    /\ UNCHANGED <<store, s3, run, faults, pc, pass, links,
                   next_page, fetched, todo, ops, result, csrf, token, http,
                   exit>>
    /\ UNCHANGED <<page, parsed, kept, found>>

Next ==
    \/ StartRun
    \/ Connect
    \/ Listing
    \/ Submit
    \/ Paged
    \/ NextPage
    \/ WalkDone
    \/ ValidatedCase
    \/ DecidedCase
    \/ ValidatedDone
    \/ DecidedDone
    \/ FuncReturn
    \/ PortalChange

Spec == Init /\ [][Next]_vars

\* ------------------------------------------------- the documents page
\* A text is a sequence of words.  The words the explored pages use, and
\* what to_lowercase makes of each.
Lower ==
    [Decision |-> "decision", DECISION |-> "decision", Notice |-> "notice",
     Full |-> "full", Application |-> "application", application |-> "application",
     Form |-> "form", form |-> "form", Site |-> "site", Plan |-> "plan"]

\* str::to_lowercase.
to_lowercase(text) == [i \in 1..Len(text) |-> Lower[text[i]]]

\* str::contains: the pattern occurs in the text, word for word.
contains(text, pattern) ==
    \E i \in 0..(Len(text) - Len(pattern)) :
        \A j \in 1..Len(pattern) : text[i + j] = pattern[j]

\* The cells a row of the documents table can have: the name (third cell),
\* the description (fifth cell), and in the sixth cell no "a" element
\* ("none"), an "a" element whose href is missing or empty (""), or one with
\* the URL of the document ("href").
Names == { <<"Decision", "Notice">>, <<"Full", "Application", "Form">>,
           <<"Site", "Plan">> }
Descriptions == { <<>>, <<"DECISION">>, <<"application", "form">> }
Views == {"none", "", "href"}
Rows == [name : Names, description : Descriptions, view : Views]
Tables == UNION { [1..n -> Rows] : n \in 0..MaxRows }

\* extract_docs, lines 378-381: the text of every "tr > td:nth-child(3)" of
\* the page, in document order.
docs_column(rows) == [i \in 1..Len(rows) |-> rows[i].name]

\* extract_docs, lines 383-386: the text of every "tr > td:nth-child(5)".
descriptions_column(rows) == [i \in 1..Len(rows) |-> rows[i].description]

\* extract_docs, lines 388-391: the href of every "tr > td:nth-child(6) > a"
\* of the page, in document order (unwrap_or_default: "" when the attribute
\* is missing).  A row without the element adds nothing.  of names the row
\* the element is in: it makes the URLs of different rows different.
RECURSIVE views_column(_, _)
views_column(rows, i) ==
    IF i > Len(rows) THEN <<>>
    ELSE IF rows[i].view = "none" THEN views_column(rows, i + 1)
    ELSE <<[href |-> rows[i].view, of |-> i]>> \o views_column(rows, i + 1)

\* Iterator::zip: pairs up to the end of the shorter sequence.
zip(a, b) ==
    [i \in 1..(IF Len(a) <= Len(b) THEN Len(a) ELSE Len(b)) |-> <<a[i], b[i]>>]

\* extract_docs, lines 397-402: the first filter.
qualifies(doc, desc) ==
    \/ contains(to_lowercase(doc), <<"decision">>)
    \/ contains(to_lowercase(desc), <<"decision">>)
    \/ contains(to_lowercase(doc), <<"application", "form">>)
    \/ contains(to_lowercase(desc), <<"application", "form">>)

\* extract_docs, line 403: the second filter, !view.trim().is_empty().
has_link(view) == view.href # ""

\* extract_docs, lines 404-411: the key the map closure gives a row.
classified(doc, desc) ==
    IF \/ contains(to_lowercase(doc), <<"decision">>)
       \/ contains(to_lowercase(desc), <<"decision">>)
    THEN "decision_notice"
    ELSE "application_form"

\* extract_docs, lines 393-411: docs zipped with views and with
\* descriptions, filtered and mapped to (key, URL) pairs.
pairs_of(rows) ==
    LET zipped == zip(zip(docs_column(rows), views_column(rows, 1)),
                      descriptions_column(rows))
        passes(z) == qualifies(z[1][1], z[2]) /\ has_link(z[1][2])
        filtered == SelectSeq(zipped, passes)
    IN [i \in 1..Len(filtered) |->
            <<classified(filtered[i][1][1], filtered[i][2]), filtered[i][1][2]>>]

\* extract_docs, line 412: collect::<HashMap<&str, String>>(): the pairs are
\* inserted in order, a later pair replaces an earlier one with its key.
collect(pairs) ==
    [k \in { pairs[i][1] : i \in 1..Len(pairs) } |->
        LET last == CHOOSE i \in 1..Len(pairs) :
                        /\ pairs[i][1] = k
                        /\ \A j \in (i + 1)..Len(pairs) : pairs[j][1] # k
        IN pairs[last][2]]

\* A documents page with any table of at most MaxRows rows is handed to
\* extract_docs; the rest of the program stands still.
InitDocs ==
    /\ page \in Tables
    /\ parsed = FALSE
    /\ kept = <<>>
    /\ found = <<>>
    /\ portal = [pages |-> Chain,
                 docs |-> [l \in Links |-> DocTypes],
                 preview_reference |-> [l \in Links |-> CaseNumber(l)],
                 legacy |-> TRUE]
    /\ epoch = 0
    /\ store = <<>>
    /\ s3 = 0
    /\ run = 0
    /\ faults = 0
    /\ pc = "idle"
    /\ pass = Options[1]
    /\ links = <<>>
    /\ next_page = 0
    /\ fetched = <<>>
    /\ todo = <<>>
    /\ ops = <<>>
    /\ result = "none"
    /\ csrf = NoToken
    /\ token = NoToken
    /\ http = <<>>
    /\ exit = "none"

\* extract_docs, lines 378-413: the docs map of the page.
ExtractDocs ==
    /\ ~parsed
    /\ parsed' = TRUE
    /\ kept' = pairs_of(page)
    /\ found' = collect(pairs_of(page))
    /\ UNCHANGED <<page, portal, epoch, store, s3, run, faults, pc, pass,
                   links, next_page, fetched, todo, ops, result, csrf, token,
                   http, exit>>

NextDocs == ExtractDocs

SpecDocs == InitDocs /\ [][NextDocs]_vars

\* ---------------------------------------------------------------- claims
\* A for-loop iteration is about to visit the link Current.
Visiting == pc = "cases" /\ todo # <<>>
Current == Head(todo)

\* What the two lookups answer on the collection as it is.
Present(reference) == check_reference(reference, COUNTY, store) # 0
Finalized(reference) == check_decision_exisits(reference, COUNTY, store) # 0

\* The calls hold a call of op on arg that ended in res.
Made(calls, op, arg, res) ==
    \E n \in 1..Len(calls) : calls[n] = Call(op, arg, res)

\* The calls hold a call of op, however it ended.
Called(calls, op) == \E n \in 1..Len(calls) : calls[n].op = op

\* The reference id extract_docs reads for the case a stored record was
\* built from.
KeyOf(record) == <<record.council, CaseNumber(record.link[1])>>

\* C1: the store never holds two records with the same (council, reference)
\* pair, reference being the id extract_docs read for the record's case.
C1_UniqueKey ==
    \A i, j \in 1..Len(store) : i # j => KeyOf(store[i]) # KeyOf(store[j])

\* C2: with no operation failing and the portal unchanged since the first
\* run on the empty store, no iteration of the second run's validated pass
\* inserts a record or uploads a blob.
C2_SecondRunIdle ==
    [][(Visiting /\ pass = "DC_Validated" /\ run = 2 /\ epoch = 0 /\ faults' = 0)
        => (store' = store /\ s3' = s3)]_vars

\* C3: in the decided pass an iteration for a case whose stored record
\* already holds a decision_notice document uploads nothing and writes
\* nothing, whatever links were classified.
C3_FinalizedSkipped ==
    [][(Visiting /\ pass = "DC_Decided" /\ Finalized(CaseNumber(Current)))
        => (store' = store /\ s3' = s3)]_vars

\* C4: in the decided pass, for a case whose stored record has no decision
\* notice and whose decision_notice link was classified, the update an
\* iteration writes leaves that record with the prior documents, in order,
\* followed by one new decision_notice DocumentRef, and with the summary,
\* further_information and agent_details get_document extracts now; with no
\* call failing the update is written.
C4_UpdateAppends ==
    [][(/\ Visiting
        /\ pass = "DC_Decided"
        /\ Present(CaseNumber(Current))
        /\ ~Finalized(CaseNumber(Current))
        /\ "decision_notice" \in portal.docs[Current])
        => LET i == check_reference(CaseNumber(Current), COUNTY, store)
               prior == store[i].documents
               fresh == get_document(Current, run)
           IN
           /\ Made(ops', "send_data", "update", "ok") =>
                 /\ Len(store') = Len(store)
                 /\ s3' = s3 + 1
                 /\ Len(store'[i].documents) = Len(prior) + 1
                 /\ SubSeq(store'[i].documents, 1, Len(prior)) = prior
                 /\ store'[i].documents[Len(prior) + 1].doc_type = "decision_notice"
                 /\ store'[i].documents[Len(prior) + 1].name = s3'
                 /\ store'[i].summary = fresh.summary
                 /\ store'[i].further_information = fresh.further_information
                 /\ store'[i].agent_details = fresh.agent_details
           /\ Failed(ops') = {} => Made(ops', "send_data", "update", "ok")]_vars

\* C4, witnessed: a decided iteration has just updated a record created in an
\* earlier run: its documents are the application form followed by the
\* decision notice uploaded last, and its sub-records are the new contents.
C4_Witness ==
    /\ pass = "DC_Decided"
    /\ Made(ops, "send_data", "update", "ok")
    /\ \E i \in 1..Len(store) :
        /\ Len(store[i].documents) = 2
        /\ store[i].documents[1].doc_type = "application_form"
        /\ store[i].documents[2] = upload_file("decision_notice", s3)
        /\ store[i].created_at < store[i].updated_at
        /\ store[i].summary.data = 1
        /\ store[i].further_information = 1
        /\ store[i].agent_details = 1

\* C5: a failure while one case link of the decided pass is processed (a
\* missing reference id aside, which is C8's) leaves the for loop running
\* and process returns no error because of it.
C5_DecidedIsolated ==
    [][(Visiting /\ pass = "DC_Decided"
        /\ ~Made(ops', "extract_docs", "", "noref"))
        => (pc' = "cases" /\ result' # "Err")]_vars

\* C6: in the decided pass, when an upload fails for a case that has no
\* record in the store, no record is inserted for it.
C6_UploadFailureAbandons ==
    [][(Visiting /\ pass = "DC_Decided"
        /\ ~Present(CaseNumber(Current))
        /\ \E t \in DocTypes : Made(ops', "upload_file", t, "err"))
        => store' = store]_vars

\* C7: the walker never fetches a result page it has already fetched in the
\* same walk.
C7_NoPageTwice ==
    \A i, j \in 1..Len(fetched) : i # j => fetched[i] # fetched[j]

\* C8: an iteration whose documents page has no reference id uploads and
\* writes nothing and leaves the for loop running.
C8_MissingReferenceSkipped ==
    [][(Visiting /\ Made(ops', "extract_docs", "", "noref"))
        => (pc' = "cases" /\ store' = store /\ s3' = s3)]_vars

\* C9 as stated: every record of the store holds an application_form
\* DocumentRef (it was created from a case whose application form was
\* classified and uploaded).
C9_EveryRecordHasForm ==
    \A i \in 1..Len(store) :
        \E k \in 1..Len(store[i].documents) :
            store[i].documents[k].doc_type = "application_form"

\* C9, amended: an iteration of the validated pass changes the store only by
\* inserting one record for the case it visits, and only when the case's
\* application_form link was classified and its upload succeeded; the
\* record's documents are that one DocumentRef.
C9_ValidatedInsertHasForm ==
    [][(Visiting /\ pass = "DC_Validated" /\ store' # store)
        => /\ "application_form" \in portal.docs[Current]
           /\ Made(ops', "upload_file", "application_form", "ok")
           /\ Len(store') = Len(store) + 1
           /\ SubSeq(store', 1, Len(store)) = store
           /\ store'[Len(store')].link = <<Current, "=summary">>
           /\ store'[Len(store')].documents
                = <<upload_file("application_form", s3')>>]_vars

\* C9, witnessed: the validated pass has just inserted a record whose
\* documents are the application form uploaded last.
C9_Witness ==
    /\ pass = "DC_Validated"
    /\ Made(ops, "send_data", "insert", "ok")
    /\ store # <<>>
    /\ store[Len(store)].documents = <<upload_file("application_form", s3)>>

\* C10: in the validated pass an iteration for a case whose reference is in
\* the store extracts no record, uploads nothing and writes nothing.
C10_PresentSkipped ==
    [][(Visiting /\ pass = "DC_Validated" /\ Present(CaseNumber(Current)))
        => (store' = store /\ s3' = s3 /\ ~Called(ops', "get_document"))]_vars

\* The calls hold exactly n calls of op.
Count(calls, op) == Cardinality({ n \in 1..Len(calls) : calls[n].op = op })

\* C11: in the validated pass, for a case whose reference is not in the
\* store: when an application_form link was classified and every call
\* succeeds, one blob is uploaded and one record is appended to the store,
\* built from this case, whose documents are that one application_form
\* DocumentRef; when no application_form link was classified, nothing is
\* uploaded and nothing is written.
C11_ValidatedAbsent ==
    [][(Visiting /\ pass = "DC_Validated" /\ ~Present(CaseNumber(Current)))
        => /\ ("application_form" \in portal.docs[Current] /\ Failed(ops') = {})
                => /\ Len(store') = Len(store) + 1
                   /\ SubSeq(store', 1, Len(store)) = store
                   /\ s3' = s3 + 1
                   /\ Count(ops', "upload_file") = 1
                   /\ Count(ops', "send_data") = 1
                   /\ store'[Len(store')].link[1] = Current
                   /\ Len(store'[Len(store')].documents) = 1
                   /\ store'[Len(store')].documents[1].doc_type = "application_form"
                   /\ store'[Len(store')].documents[1].name = s3'
           /\ "application_form" \notin portal.docs[Current]
                => /\ store' = store
                   /\ s3' = s3
                   /\ ~Called(ops', "upload_file")
                   /\ ~Called(ops', "send_data")]_vars

\* C11, witnessed: the validated pass has just inserted the record of the
\* second case of its list, every call of the iteration having succeeded,
\* next to the record of the first.
C11_Witness ==
    /\ pass = "DC_Validated"
    /\ pc = "cases"
    /\ Len(ops) = 5
    /\ Failed(ops) = {}
    /\ Len(store) = 2
    /\ store[2].link[1] = 2
    /\ Len(store[2].documents) = 1
    /\ store[2].documents[1].doc_type = "application_form"
    /\ store[2].documents[1].name = s3

\* C12: in the decided pass, for a case with no record in the store and with
\* every call succeeding, one record built from this case is appended to the
\* store; its documents hold one DocumentRef for each classified link and
\* nothing else, each under its own object key, and each classified link was
\* uploaded once.
C12_DecidedInsertsAll ==
    [][(/\ Visiting
        /\ pass = "DC_Decided"
        /\ ~Present(CaseNumber(Current))
        /\ Failed(ops') = {})
        => LET docs == portal.docs[Current]
               new == store'[Len(store')]
           IN
           /\ Len(store') = Len(store) + 1
           /\ SubSeq(store', 1, Len(store)) = store
           /\ new.link[1] = Current
           /\ Len(new.documents) = Cardinality(docs)
           /\ \A t \in docs :
                Cardinality({ k \in 1..Len(new.documents) :
                                new.documents[k].doc_type = t }) = 1
           /\ \A k, m \in 1..Len(new.documents) :
                k # m => new.documents[k].name # new.documents[m].name
           /\ \A k \in 1..Len(new.documents) :
                new.documents[k].name \in (s3 + 1)..s3'
           /\ s3' = s3 + Cardinality(docs)
           /\ Count(ops', "upload_file") = Cardinality(docs)
           /\ \A t \in docs : Made(ops', "upload_file", t, "ok")
           /\ Count(ops', "send_data") = 1]_vars

\* C12, witnessed: the decided pass has just inserted, every call having
\* succeeded, a record with the two documents it uploaded for the case.
C12_Witness ==
    /\ pass = "DC_Decided"
    /\ pc = "cases"
    /\ Failed(ops) = {}
    /\ Made(ops, "send_data", "insert", "ok")
    /\ Count(ops, "upload_file") = 2
    /\ store # <<>>
    /\ Len(store[Len(store)].documents) = 2
    /\ { store[Len(store)].documents[k].doc_type : k \in 1..2 } = DocTypes
    /\ { store[Len(store)].documents[k].name : k \in 1..2 } = {s3 - 1, s3}

\* C13: in the decided pass an iteration for a case whose stored record has
\* no decision notice, and for which no decision_notice link was classified,
\* uploads nothing, extracts no record and writes nothing.
C13_NoNoticeSkipped ==
    [][(/\ Visiting
        /\ pass = "DC_Decided"
        /\ Present(CaseNumber(Current))
        /\ ~Finalized(CaseNumber(Current))
        /\ "decision_notice" \notin portal.docs[Current])
        => /\ store' = store
           /\ s3' = s3
           /\ ~Called(ops', "upload_file")
           /\ ~Called(ops', "get_document")
           /\ ~Called(ops', "send_data")]_vars

\* C14: an update written by the decided pass leaves the store as long as it
\* was, changes one record only, and leaves that record's council, link,
\* details_url, documents_url, created_at and created_by as they were.
C14_UpdateFrame ==
    [][(Visiting /\ pass = "DC_Decided" /\ Made(ops', "send_data", "update", "ok"))
        => /\ Len(store') = Len(store)
           /\ \E i \in 1..Len(store) :
                /\ \A j \in 1..Len(store) : j # i => store'[j] = store[j]
                /\ DOMAIN store'[i] = DOMAIN store[i]
                /\ store'[i].council = store[i].council
                /\ store'[i].link = store[i].link
                /\ store'[i].details_url = store[i].details_url
                /\ store'[i].documents_url = store[i].documents_url
                /\ store'[i].created_at = store[i].created_at
                /\ store'[i].created_by = store[i].created_by
                /\ store'[i].updated_at = run]_vars

\* C14, witnessed: the decided pass of a later run has just updated the first
\* of two records, which keeps the link and the creation time of its insert,
\* while the second is as it was inserted.
C14_Witness ==
    /\ pass = "DC_Decided"
    /\ Made(ops, "send_data", "update", "ok")
    /\ Len(store) = 2
    /\ store[1].link = <<1, "=summary">>
    /\ store[1].created_at < run
    /\ store[1].updated_at = run
    /\ store[2].link = <<2, "=summary">>
    /\ store[2].updated_at = store[2].created_at
    /\ Len(store[2].documents) = 1

\* C15: no step removes a record from the store or takes a document from a
\* record: every record stays where it is, for the same case, and the
\* documents it had are a prefix of the documents it has after the step.
C15_AppendOnly ==
    [][/\ Len(store') >= Len(store)
       /\ \A i \in 1..Len(store) :
            /\ store'[i].council = store[i].council
            /\ store'[i].link = store[i].link
            /\ Len(store'[i].documents) >= Len(store[i].documents)
            /\ SubSeq(store'[i].documents, 1, Len(store[i].documents))
                  = store[i].documents]_vars

\* C15, witnessed: after two runs the store holds the records of both cases,
\* each with the application form of its insert followed by the decision
\* notice a later update appended.
C15_Witness ==
    /\ pc = "idle"
    /\ run = 2
    /\ Len(store) = 2
    /\ \A i \in 1..2 :
        /\ Len(store[i].documents) = 2
        /\ store[i].documents[1] = upload_file("application_form", i)
        /\ store[i].documents[2].doc_type = "decision_notice"
        /\ store[i].created_at < store[i].updated_at

\* The pages of a listing in the order the "next" links chain them from page
\* p, at most n of them.
RECURSIVE Chained(_, _, _)
Chained(pages, p, n) ==
    IF p = 0 \/ n = 0 THEN <<>>
    ELSE <<p>> \o Chained(pages, pages[p].next, n - 1)

\* The links of the given pages, one page after the other.
RECURSIVE Concatenated(_, _)
Concatenated(pages, order) ==
    IF order = <<>> THEN <<>>
    ELSE pages[Head(order)].links \o Concatenated(pages, Tail(order))

\* No element occurs twice in the sequence.
NoRepeats(q) == \A i, j \in 1..Len(q) : i # j => q[i] # q[j]

\* C16: when the walker returns, its links are the links of the pages the
\* "next" links chain from the first page, one page after the other in that
\* order (the first page's alone when it has no "next" link), each page was
\* fetched once, and no link is there twice when the pages' links are
\* distinct.
C16_PageOrder ==
    [][(pc = "next" /\ pc' = "cases")
        => LET order == Chained(portal.pages, 1, Len(portal.pages)) IN
           /\ fetched = order
           /\ NoRepeats(fetched)
           /\ links = Concatenated(portal.pages, order)
           /\ (portal.pages[1].next = 0 => links = portal.pages[1].links)
           /\ (NoRepeats(Concatenated(portal.pages, order)) => NoRepeats(links))
           /\ links' = links]_vars

\* C16, witnessed: the walk over the chain of two pages has returned the link
\* of the first page followed by the link of the second.
C16_Witness ==
    /\ pc = "cases"
    /\ Len(portal.pages) = 2
    /\ fetched = <<1, 2>>
    /\ links = <<1, 2>>
    /\ todo = links
    /\ Len(http) = 4

\* A request of the walker is about to be sent.
Walking == pc \in {"listing", "submit", "paged", "next"}

\* C17: a request of the walker that fails in transport makes process return
\* the error with the store and the bucket as they were and no link handed to
\* the for loop; after that nothing is uploaded or written, and no pass is
\* started, until the handler is invoked again.
C17_WalkFailureAborts ==
    [][/\ (Walking /\ faults' # faults /\ result' # "panic")
            => /\ pc' = "returned"
               /\ result' = "Err"
               /\ todo' = <<>>
               /\ <<store', s3', pass'>> = <<store, s3, pass>>
       /\ (pc = "returned")
            => /\ pc' = "idle"
               /\ <<store', s3', pass', todo', result'>>
                    = <<store, s3, pass, todo, result>>
       /\ (pc = "idle")
            => /\ pc' = "idle" \/ (pc' = "connect" /\ run' = run + 1)
               /\ <<store', s3'>> = <<store, s3>>]_vars

\* C17, witnessed: the fetch of the second page of the validated listing
\* failed: process returned the error, the link of the first page was handed
\* to no for loop, and the store and the bucket are empty.
C17_Witness ==
    /\ pc = "returned"
    /\ result = "Err"
    /\ pass = "DC_Validated"
    /\ Len(http) = 4
    /\ http[4] = Exchange("page", NoTokens, NoTokens)
    /\ links = <<1>>
    /\ todo = <<>>
    /\ store = <<>>
    /\ s3 = 0

\* C18: when an invocation has ended, the handler reported success exactly
\* when process ended without a pass-aborting error (per-case failures do not
\* count), and failure otherwise.
C18_ExitReflectsFatal ==
    (pc = "idle" /\ run >= 1) => (exit = "Ok" <=> result = "Ok")

\* The n-th request of the walk carries a form with token inputs.
FormCarrying(n) == http[n].request \in {"firstPage", "pagedSearchResults"}

\* C19: in a walk, the search form is sent right after the listing page was
\* served and carries that page's csrf and legacy token; the paging form is
\* sent right after the search form was answered and carries the csrf and
\* legacy token of that answer; no csrf value, and no legacy token value, is
\* sent with two requests.
C19_FreshTokens ==
    /\ \A n \in 1..Len(http) :
        /\ http[n].request = "firstPage"
            => /\ n > 1
               /\ http[n - 1].request = "weeklyList"
               /\ http[n].form = http[n - 1].response
        /\ http[n].request = "pagedSearchResults"
            => /\ n > 1
               /\ http[n - 1].request = "firstPage"
               /\ http[n].form = http[n - 1].response
        /\ FormCarrying(n)
            => /\ http[n].form.csrf # NoToken
               /\ (portal.legacy => http[n].form.token # NoToken)
        /\ ~FormCarrying(n) => http[n].form = NoTokens
    /\ \A m, n \in 1..Len(http) :
        (m # n /\ FormCarrying(m) /\ FormCarrying(n))
            => /\ http[m].form.csrf # http[n].form.csrf
               /\ (http[m].form.token # NoToken
                    => http[m].form.token # http[n].form.token)

\* C19, witnessed: on a portal with the legacy token, the paging form has
\* been answered; it carried the tokens of the search form's answer, and the
\* search form carried the tokens of the listing page.
C19_Witness ==
    /\ portal.legacy
    /\ Len(http) >= 3
    /\ http[3].request = "pagedSearchResults"
    /\ http[3].form = http[2].response
    /\ http[3].form.token # NoToken
    /\ http[2].form = http[1].response
    /\ http[2].form # http[3].form
    /\ pc = "next"

\* q is what is left of list after some of its first elements.
IsSuffix(q, list) ==
    /\ Len(q) <= Len(list)
    /\ q = SubSeq(list, Len(list) - Len(q) + 1, Len(list))

\* C20: the for loop gets the links as the walker returned them and what it
\* has still to visit is always the rest of that list; an iteration handles
\* the first link left and no other (every record it inserts or updates is
\* that link's), and the next iteration starts on the link after it; the
\* decided category is listed only once the validated loop has no link left.
C20_InOrder ==
    [][/\ (pc = "next" /\ pc' = "cases") => todo' = links
       /\ (pc' = "cases") => IsSuffix(todo', links')
       /\ Visiting
            => /\ todo' = Tail(todo)
               /\ links' = links
               /\ pass' = pass
               /\ \A i \in 1..Len(store') :
                    (i > Len(store) \/ store'[i] # store[i])
                        => store'[i].link[1] = Current
       /\ ~Visiting => <<store', s3'>> = <<store, s3>>
       /\ (pass' = "DC_Decided" /\ pass = "DC_Validated")
            => (pc = "cases" /\ todo = <<>> /\ pc' = "listing")
       /\ (pass = "DC_Decided" /\ Walking) => todo = <<>>]_vars

\* C20, witnessed: the decided loop over the links 1, 2 has updated the
\* record of link 1 and has link 2 left, whose record is as the validated
\* loop inserted it.
C20_Witness ==
    /\ pc = "cases"
    /\ pass = "DC_Decided"
    /\ links = <<1, 2>>
    /\ todo = <<2>>
    /\ Made(ops, "send_data", "update", "ok")
    /\ Len(store) = 2
    /\ store[1].link[1] = 1
    /\ Len(store[1].documents) = 2
    /\ store[2].link[1] = 2
    /\ Len(store[2].documents) = 1

\* C22: every record of the store holds three different URLs of its case:
\* link ends in "=summary", details_url in "=details" and documents_url in
\* "=documents", and they are otherwise the same.
C22_UrlVariants ==
    \A i \in 1..Len(store) :
        /\ store[i].link[2] = "=summary"
        /\ store[i].details_url = <<store[i].link[1], "=details">>
        /\ store[i].documents_url = <<store[i].link[1], "=documents">>

\* The URL of the document of row i of the page.
UrlOf(i) == [href |-> "href", of |-> i]

\* The name or the description of row r contains the pattern, whatever the
\* case of its letters.
Matches(r, pattern) ==
    \/ contains(to_lowercase(r.name), pattern)
    \/ contains(to_lowercase(r.description), pattern)

\* The classification the rule gives row r: none when neither pattern
\* occurs, decision_notice when "decision" does, application_form otherwise.
ClassOf(r) ==
    IF Matches(r, <<"decision">>) THEN "decision_notice"
    ELSE IF Matches(r, <<"application", "form">>) THEN "application_form"
    ELSE "none"

\* The rows of the page with a link that is not empty and classification t.
Qualifying(t) ==
    { i \in 1..Len(page) : page[i].view = "href" /\ ClassOf(page[i]) = t }

\* C21: when extract_docs has returned, a row with a non-empty link was
\* retained exactly when its name or description contains "decision" or
\* "application form", and it was retained as decision_notice when one of
\* them contains "decision", as application_form otherwise.
C21_Classification ==
    parsed =>
        \A i \in 1..Len(page) :
            page[i].view = "href" =>
                /\ (\E n \in 1..Len(kept) : kept[n][2] = UrlOf(i))
                        <=> ClassOf(page[i]) # "none"
                /\ \A n \in 1..Len(kept) :
                        kept[n][2] = UrlOf(i) => kept[n][1] = ClassOf(page[i])

\* C23: the map extract_docs returned holds, for each classification, the
\* URL of the last row of the page that qualifies with that classification,
\* and no URL when no row does.
C23_LastRowWins ==
    parsed =>
        \A t \in DocTypes :
            IF Qualifying(t) = {} THEN t \notin DOMAIN found
            ELSE /\ t \in DOMAIN found
                 /\ found[t] = UrlOf(CHOOSE i \in Qualifying(t) :
                                        \A j \in Qualifying(t) : j <= i)

\* C26: every URL of the map extract_docs returned is the link of a row
\* whose own name or description gives it the classification the URL is
\* kept under.
C26_SameRow ==
    parsed =>
        \A t \in DOMAIN found :
            \E i \in 1..Len(page) :
                /\ found[t] = UrlOf(i)
                /\ page[i].view = "href"
                /\ ClassOf(page[i]) = t

\* C24: in either pass, an iteration in which check_reference or
\* check_decision_exisits returned an error uploads nothing and writes
\* nothing.
C24_LookupErrorSkips ==
    [][(/\ Visiting
        /\ \/ Made(ops', "check_reference", "", "err")
           \/ Made(ops', "check_decision_exisits", "", "err"))
        => /\ store' = store
           /\ s3' = s3
           /\ ~Called(ops', "upload_file")
           /\ ~Called(ops', "send_data")]_vars

Refs(record, t) ==
    { k \in 1..Len(record.documents) : record.documents[k].doc_type = t }

\* C27: every record of the store holds at most one decision_notice
\* DocumentRef and at most one application_form DocumentRef.
C27_OneRefPerType ==
    \A i \in 1..Len(store) :
        \A t \in DocTypes : Cardinality(Refs(store[i], t)) <= 1

\* C28: with no operation failing in either run and the portal unchanged
\* since the first run, no iteration of the second run's decided pass
\* uploads a blob or writes to the store.
C28_SecondDecidedIdle ==
    [][(Visiting /\ pass = "DC_Decided" /\ run = 2 /\ epoch = 0 /\ faults' = 0)
        => (store' = store /\ s3' = s3)]_vars

====
